---- MODULE Spec2Model ----
(***************************************************************************)
(* State-machine model of the semantic search engine:                      *)
(*   data.py              KnowledgeGraph (nodes, hyperedges, adjacency)    *)
(*   search_strategies.py Vector / Graph-Traversal / Ontology-Lens /       *)
(*                        Hybrid search and Hybrid.update_weights          *)
(*   self_improver.py     SearchLeague (_precision_at_k, run_round,        *)
(*                        champion)                                        *)
(*                                                                         *)
(* Text is modelled character by character: a Python str is a tuple of     *)
(* one-character strings, so lower(), split(), strip() and the `in`        *)
(* substring test are computed, not assumed.                               *)
(* Floats are modelled by exact rationals [n, d] in lowest terms, except   *)
(* math.log, which is a table in thousandths (see Ln).                     *)
(* A Python dict is a sequence of <<key, value>> pairs in insertion order. *)
(***************************************************************************)
EXTENDS Integers, Sequences, FiniteSets, TLC

VARIABLES
    nodes,           \* KnowledgeGraph.nodes: insertion-ordered, seq of Node
    hyperedges,      \* KnowledgeGraph.hyperedges: insertion-ordered, seq of Hyperedge
    node_to_edges,   \* KnowledgeGraph._node_to_edges: node id -> set of edge ids
    edge_order,      \* iteration order of the interpreter's sets of edge ids
    idf,             \* VectorSemanticSearch._idf: term -> value in thousandths
    searched,        \* history: the Vector instance's search has been called
    walk_depth,      \* GraphTraversalSearch.walk_depth
    strategies,      \* SearchLeague.strategies = hybrid.strategies (names)
    weights,         \* HybridSelfImprovingSearch.weights: seq of <<name, rational>>
    evaluation_set,  \* SearchLeague.evaluation_set: seq of QueryExample
    updates,         \* number of update_weights calls so far (bounds the run)
    ret              \* what the last call returned

vars == <<nodes, hyperedges, node_to_edges, edge_order, idf, searched, walk_depth,
          strategies, weights, evaluation_set, updates, ret>>

graphVars == <<nodes, hyperedges, node_to_edges>>
configVars == <<edge_order, walk_depth, strategies, evaluation_set>>

-----------------------------------------------------------------------------
(* Bounds of the model *)

\* update_weights calls in one run (run_round and champion make one each)
MaxUpdates == 2
\* largest limit / k passed explicitly to search and _precision_at_k,
\* besides the default of 5
MaxLimit == 1

-----------------------------------------------------------------------------
(* Rational arithmetic standing for Python floats *)

RECURSIVE GCD(_, _)
GCD(a, b) ==
    IF b = 0 THEN a ELSE GCD(b, a % b)

Abs(x) ==
    IF x < 0 THEN -x ELSE x

Reduce(n, d, g) ==
    [n |-> n \div g, d |-> d \div g]

\* the rational n/d (d > 0) in lowest terms
Rat(n, d) ==
    Reduce(n, d, GCD(Abs(n), d))

RZero == Rat(0, 1)
ROne == Rat(1, 1)

RAdd(a, b) ==
    Rat(a.n * b.d + b.n * a.d, a.d * b.d)

RSub(a, b) ==
    Rat(a.n * b.d - b.n * a.d, a.d * b.d)

RMul(a, b) ==
    Rat(a.n * b.n, a.d * b.d)

RDivInt(a, k) ==
    Rat(a.n, a.d * k)

RLt(a, b) ==
    a.n * b.d < b.n * a.d

RLeq(a, b) ==
    a.n * b.d <= b.n * a.d

\* TRUE, once x has been evaluated: the folds below use it to evaluate their
\* accumulator where the program computes it, step by step in program order
Done(x) ==
    x = x

\* Python's max(a, b): a unless b > a
PyMax(a, b) ==
    IF RLt(a, b) THEN b ELSE a

-----------------------------------------------------------------------------
(* Python str operations on tuples of characters *)

SP == " "

LowerChar(ch) ==
    CASE ch = "A" -> "a"
      [] ch = "B" -> "b"
      [] ch = "C" -> "c"
      [] ch = "D" -> "d"
      [] OTHER -> ch

\* str.lower()
Lower(s) ==
    [i \in 1..Len(s) |-> LowerChar(s[i])]

RECURSIVE LStrip(_)
LStrip(s) ==
    IF s # <<>> /\ Head(s) = SP THEN LStrip(Tail(s)) ELSE s

RECURSIVE RStrip(_)
RStrip(s) ==
    IF s # <<>> /\ s[Len(s)] = SP THEN RStrip(SubSeq(s, 1, Len(s) - 1)) ELSE s

\* str.strip()
Strip(s) ==
    RStrip(LStrip(s))

\* whether p is a prefix of s
StartsWith(s, p) ==
    /\ Len(p) <= Len(s)
    /\ SubSeq(s, 1, Len(p)) = p

\* Python's `sub in s` for strings
Contains(sub, s) ==
    \E i \in 0..(Len(s) - Len(sub)) : SubSeq(s, i + 1, i + Len(sub)) = sub

\* str.split(): cut at runs of whitespace, no empty pieces
RECURSIVE SplitWs(_, _, _)
SplitWs(s, cur, acc) ==
    IF s = <<>>
    THEN IF cur = <<>> THEN acc ELSE Append(acc, cur)
    ELSE IF Head(s) = SP
         THEN SplitWs(Tail(s), <<>>, IF cur = <<>> THEN acc ELSE Append(acc, cur))
         ELSE SplitWs(Tail(s), Append(cur, Head(s)), acc)

Split(s) ==
    SplitWs(s, <<>>, <<>>)

\* str.split(delim): cut at every non-overlapping occurrence of delim, left to
\* right; empty pieces are kept
RECURSIVE SplitAt(_, _, _, _)
SplitAt(s, delim, cur, acc) ==
    IF s = <<>>
    THEN Append(acc, cur)
    ELSE IF StartsWith(s, delim)
         THEN SplitAt(SubSeq(s, Len(delim) + 1, Len(s)), delim, <<>>, Append(acc, cur))
         ELSE SplitAt(Tail(s), delim, Append(cur, Head(s)), acc)

SplitOn(s, delim) ==
    SplitAt(s, delim, <<>>, <<>>)

\* sep.join(parts)
RECURSIVE Join(_, _)
Join(parts, sep) ==
    IF parts = <<>> THEN <<>>
    ELSE IF Len(parts) = 1 THEN parts[1]
    ELSE parts[1] \o sep \o Join(Tail(parts), sep)

\* the elements of a sequence
Range(s) ==
    {s[i] : i \in 1..Len(s)}

-----------------------------------------------------------------------------
(* Python dict as an insertion-ordered sequence of <<key, value>> pairs *)

Keys(d) ==
    [i \in 1..Len(d) |-> d[i][1]]

KeySet(d) ==
    {d[i][1] : i \in 1..Len(d)}

HasKey(d, k) ==
    \E i \in 1..Len(d) : d[i][1] = k

\* d.get(k, default)
Get(d, k, default) ==
    IF HasKey(d, k)
    THEN d[CHOOSE i \in 1..Len(d) : d[i][1] = k][2]
    ELSE default

\* d[k] = v: an existing key keeps its place, a new key goes last
Put(d, k, v) ==
    IF HasKey(d, k)
    THEN [i \in 1..Len(d) |-> IF d[i][1] = k THEN <<k, v>> ELSE d[i]]
    ELSE Append(d, <<k, v>>)

-----------------------------------------------------------------------------
(* data.py: Node, Hyperedge, KnowledgeGraph *)

\* a Node; metadata is reduced to the two keys the strategies read
Node(id, label, kind, description, tags) ==
    [id |-> id, label |-> label, kind |-> kind,
     description |-> description, tags |-> tags]

\* a Hyperedge; relation, weight and metadata are read by no strategy
Hyperedge(id, node_ids) ==
    [id |-> id, node_ids |-> node_ids]

\* Node.text_signature
text_signature(node) ==
    Strip(node.label \o <<SP>> \o node.kind \o <<SP>> \o node.description
          \o <<SP>> \o Join(node.tags, <<SP>>))

\* the graph object, as the three dicts of KnowledgeGraph.__init__
KnowledgeGraph(ns, es, n2e) ==
    [nodes |-> ns, hyperedges |-> es, node_to_edges |-> n2e]

\* dict.setdefault(k, set()) on _node_to_edges
SetDefault(n2e, k) ==
    IF k \in DOMAIN n2e THEN n2e
    ELSE [x \in DOMAIN n2e \cup {k} |-> IF x = k THEN {} ELSE n2e[x]]

\* KnowledgeGraph.add_node
add_node(G, node) ==
    [G EXCEPT !.nodes = Put(G.nodes, node.id, node),
              !.node_to_edges = SetDefault(G.node_to_edges, node.id)]

\* the loop of add_hyperedge: setdefault(node_id, set()).add(edge.id)
RECURSIVE LinkAll(_, _, _)
LinkAll(n2e, ids, edge_id) ==
    IF Done(n2e) /\ ids = <<>> THEN n2e
    ELSE LinkAll([SetDefault(n2e, Head(ids)) EXCEPT ![Head(ids)] = @ \cup {edge_id}],
                 Tail(ids), edge_id)

\* KnowledgeGraph.add_hyperedge
add_hyperedge(G, edge) ==
    [G EXCEPT !.hyperedges = Put(G.hyperedges, edge.id, edge),
              !.node_to_edges = LinkAll(G.node_to_edges, edge.node_ids, edge.id)]

\* iteration over a set of edge ids, in the interpreter's order
IterEdges(S, order) ==
    LET Test(e) == e \in S
    IN  SelectSeq(order, Test)

\* self._node_to_edges.get(node_id, ())
IncidentIds(G, node_id) ==
    IF node_id \in DOMAIN G.node_to_edges THEN G.node_to_edges[node_id] ELSE {}

\* the inner loop without `related_id != node_id`
RECURSIVE YieldRegistered(_, _, _)
YieldRegistered(G, ids, node_id) ==
    IF ids = <<>> THEN <<>>
    ELSE IF HasKey(G.nodes, Head(ids))
         THEN <<Get(G.nodes, Head(ids), "KeyError")>> \o YieldRegistered(G, Tail(ids), node_id)
         ELSE YieldRegistered(G, Tail(ids), node_id)

\* the inner loop without `related_id in self.nodes`: an id no Node is
\* registered for is yielded too, as a bare Node of that id
RECURSIVE YieldListed(_, _, _)
YieldListed(G, ids, node_id) ==
    IF ids = <<>> THEN <<>>
    ELSE IF Head(ids) # node_id
         THEN <<Get(G.nodes, Head(ids), Node(Head(ids), <<>>, <<>>, <<>>, <<>>))>>
              \o YieldListed(G, Tail(ids), node_id)
         ELSE YieldListed(G, Tail(ids), node_id)

\* the inner loop of neighbors over one edge's node_ids
RECURSIVE YieldRelated(_, _, _)
YieldRelated(G, ids, node_id) ==
    IF ids = <<>> THEN <<>>
    ELSE IF Head(ids) # node_id /\ HasKey(G.nodes, Head(ids))
         THEN <<Get(G.nodes, Head(ids), "KeyError")>> \o YieldRelated(G, Tail(ids), node_id)
         ELSE YieldRelated(G, Tail(ids), node_id)

RECURSIVE NeighborsOver(_, _, _)
NeighborsOver(G, edge_ids, node_id) ==
    IF edge_ids = <<>> THEN <<>>
    ELSE YieldRelated(G, Get(G.hyperedges, Head(edge_ids), Hyperedge("KeyError", <<>>)).node_ids,
                      node_id)
         \o NeighborsOver(G, Tail(edge_ids), node_id)

NeighborsIn(G, edge_ids, node_id) ==
    [yielded |-> NeighborsOver(G, edge_ids, node_id),
     failed |-> \E i \in 1..Len(edge_ids) : ~HasKey(G.hyperedges, edge_ids[i])]

\* KnowledgeGraph.neighbors, run to exhaustion: the Nodes it yields, and whether
\* self.hyperedges[edge_id] raised KeyError on the way
neighbors(G, order, node_id) ==
    NeighborsIn(G, IterEdges(IncidentIds(G, node_id), order), node_id)

\* KnowledgeGraph.all_nodes
all_nodes(G) ==
    [i \in 1..Len(G.nodes) |-> G.nodes[i][2]]

\* a Source, by what its nodes() and hyperedges() return
Source(ns, es) ==
    [nodes |-> ns, hyperedges |-> es]

RECURSIVE AddNodes(_, _)
AddNodes(G, ns) ==
    IF Done(G) /\ ns = <<>> THEN G ELSE AddNodes(add_node(G, Head(ns)), Tail(ns))

RECURSIVE AddHyperedges(_, _)
AddHyperedges(G, es) ==
    IF Done(G) /\ es = <<>> THEN G ELSE AddHyperedges(add_hyperedge(G, Head(es)), Tail(es))

RECURSIVE FoldSources(_, _)
FoldSources(G, sources) ==
    IF Done(G) /\ sources = <<>> THEN G
    ELSE FoldSources(AddHyperedges(AddNodes(G, Head(sources).nodes), Head(sources).hyperedges),
                     Tail(sources))

\* KnowledgeGraph.from_sources
from_sources(sources) ==
    FoldSources(KnowledgeGraph(<<>>, <<>>, <<>>), sources)

-----------------------------------------------------------------------------
(* search_strategies.py: results, sorting *)

SearchResult(id, score, strategy) ==
    [id |-> id, score |-> score, strategy |-> strategy]

\* what a search call leaves behind: the list returned, the Vector instance's
\* _idf afterwards, and whether the call raised KeyError instead of returning
Outcome(results, index, failed) ==
    [results |-> results, idf |-> index, failed |-> failed]

\* place r behind every result whose score is >= r.score (keeps equal scores in
\* their original order)
RECURSIVE InsertDesc(_, _)
InsertDesc(sorted, r) ==
    IF sorted = <<>> THEN <<r>>
    ELSE IF RLt(Head(sorted).score, r.score)
         THEN <<r>> \o sorted
         ELSE <<Head(sorted)>> \o InsertDesc(Tail(sorted), r)

RECURSIVE SortInto(_, _)
SortInto(sorted, rest) ==
    IF Done(sorted) /\ rest = <<>> THEN sorted
    ELSE SortInto(InsertDesc(sorted, Head(rest)), Tail(rest))

\* the list left in the order it was built
Unsorted(results) ==
    results

\* list.sort(key=lambda r: r.score, reverse=True): stable, descending
SortDesc(results) ==
    SortInto(<<>>, results)

\* seq[:k] for k >= 0
Take(s, k) ==
    SubSeq(s, 1, IF k < Len(s) THEN k ELSE Len(s))

-----------------------------------------------------------------------------
(* search_strategies.py: VectorSemanticSearch *)

\* math.log on the integers the model meets, in thousandths
LnTable == <<0, 693, 1099, 1386, 1609, 1792, 1946, 2079, 2197, 2303>>

Ln(k) ==
    LnTable[k]

Milli == 1000

\* VectorSemanticSearch._tokenize
LowerAll(parts) ==
    [i \in 1..Len(parts) |-> Lower(parts[i])]

_tokenize(text) ==
    LowerAll(Split(text))

\* set(self._tokenize(node.text_signature()))
Terms(node) ==
    Range(_tokenize(text_signature(node)))

\* term_doc_frequency[term]
DocFrequency(nodeseq, term) ==
    Cardinality({i \in 1..Len(nodeseq) : term \in Terms(nodeseq[i])})

\* VectorSemanticSearch._build_index: term -> idf in thousandths,
\* log((doc_count + 1) / (freq + 1)) + 1
_build_index(nodeseq) ==
    [term \in UNION {Terms(nodeseq[i]) : i \in 1..Len(nodeseq)} |->
        Ln(Len(nodeseq) + 1) - Ln(DocFrequency(nodeseq, term) + 1) + Milli]

\* Counter(tokens).get(term, 0)
Count(tokens, term) ==
    Cardinality({i \in 1..Len(tokens) : tokens[i] = term})

\* self._idf.get(term, 0.0)
IdfOf(index, term) ==
    IF term \in DOMAIN index THEN index[term] ELSE 0

\* `if tf: score += (1 + math.log(tf)) * idf`
TermScore(tf, w) ==
    IF tf # 0 THEN ((Milli + Ln(tf)) * w) \div Milli ELSE 0

RECURSIVE ScoreTerms(_, _, _)
ScoreTerms(tokens, query_terms, index) ==
    IF query_terms = <<>> THEN 0
    ELSE TermScore(Count(tokens, Head(query_terms)), IdfOf(index, Head(query_terms)))
         + ScoreTerms(tokens, Tail(query_terms), index)

\* VectorSemanticSearch._score
_score(node, query_terms, index) ==
    Rat(ScoreTerms(_tokenize(text_signature(node)), query_terms, index), Milli)

\* `if not self._idf: self._build_index(nodes)`
EnsureIndex(index, nodeseq) ==
    IF DOMAIN index = {} THEN _build_index(nodeseq) ELSE index

IsPositive(r) ==
    RLt(RZero, r.score)

\* the scoring, sort, filter and cut of VectorSemanticSearch.search, with the
\* index in place
VectorRank(nodeseq, index, query_terms, limit) ==
    Outcome(Take(SelectSeq(SortDesc([i \in 1..Len(nodeseq) |->
                     SearchResult(nodeseq[i].id, _score(nodeseq[i], query_terms, index),
                                  "vector")]),
                           IsPositive),
                 limit),
            index, FALSE)

\* the nodes scored with the table as it was on entry, the table built after
ScoredBeforeBuild(G, index, query, limit) ==
    [VectorRank(all_nodes(G), index, _tokenize(query), limit)
        EXCEPT !.idf = EnsureIndex(index, all_nodes(G))]

\* VectorSemanticSearch.search
VectorSearch(G, index, query, limit) ==
    VectorRank(all_nodes(G), EnsureIndex(index, all_nodes(G)), _tokenize(query), limit)

-----------------------------------------------------------------------------
(* search_strategies.py: GraphTraversalSearch *)

\* the decay factor 0.6 and the cut-off 0.01 of the propagation loop
Decay == Rat(3, 5)
CutOff == Rat(1, 100)

\* {token.lower() for token in query.split() if token.strip()}
Keywords(query) ==
    Range(_tokenize(query))

\* any(keyword in signature for keyword in keywords)
IsSeed(node, keywords) ==
    \E keyword \in keywords : Contains(keyword, Lower(text_signature(node)))

\* the seeding loop: base_scores[node.id] = 1.0
RECURSIVE Seed(_, _)
Seed(nodeseq, keywords) ==
    IF nodeseq = <<>> THEN <<>>
    ELSE IF IsSeed(Head(nodeseq), keywords)
         THEN <<<<Head(nodeseq).id, ROne>>>> \o Seed(Tail(nodeseq), keywords)
         ELSE Seed(Tail(nodeseq), keywords)

\* reading propagation[id] on the defaultdict creates the key at 0.0
Touch(propagation, id) ==
    IF HasKey(propagation, id) THEN propagation ELSE Put(propagation, id, RZero)

\* every value received added up: propagation[id] += propagated
Summed(propagation, id, propagated) ==
    Put(propagation, id, RAdd(Get(propagation, id, RZero), propagated))

\* `if propagated > propagation[id]: propagation[id] = max(propagation[id], propagated)`
Raise(propagation, id, propagated) ==
    IF RLt(Get(propagation, id, RZero), propagated)
    THEN Put(propagation, id, PyMax(Get(propagation, id, RZero), propagated))
    ELSE propagation

\* the body of `for neighbor in graph.neighbors(node_id)`, over the yielded
\* nodes; st = [propagation, next_frontier, failed]
RECURSIVE Push(_, _, _)
Push(st, yielded, propagated) ==
    IF Done(st) /\ yielded = <<>> THEN st
    ELSE IF ~RLt(CutOff, propagated) THEN Push(st, Tail(yielded), propagated)
    ELSE Push([st EXCEPT !.propagation = Raise(Touch(@, Head(yielded).id),
                                               Head(yielded).id, propagated),
                         !.next_frontier = Append(@, <<Head(yielded).id, propagated>>)],
              Tail(yielded), propagated)

\* `for neighbor in graph.neighbors(node_id)` for one frontier entry; a
\* KeyError raised inside neighbors ends the search
Visit(st, around, propagated) ==
    Push([st EXCEPT !.failed = @ \/ around.failed], around.yielded, propagated)

\* one pass of `for node_id, score in frontier`
RECURSIVE Hop(_, _, _, _)
Hop(G, order, frontier, st) ==
    IF Done(st) /\ frontier = <<>> THEN st
    ELSE Hop(G, order, Tail(frontier),
             Visit(st, neighbors(G, order, Head(frontier)[1]),
                   RMul(Head(frontier)[2], Decay)))

\* `for _ in range(self.walk_depth)`: the propagation dict after the hops
\* left, and whether a lookup failed on the way
RECURSIVE Propagate(_, _, _, _)
Propagate(G, order, st, hops) ==
    IF Done(st) /\ hops <= 0 THEN st
    ELSE Propagate(G, order,
                   Hop(G, order, st.next_frontier, [st EXCEPT !.next_frontier = <<>>]),
                   hops - 1)

\* combined_scores[node_id] = max(combined_scores[node_id], score)
RECURSIVE Combine(_, _)
Combine(combined, propagation) ==
    IF Done(combined) /\ propagation = <<>> THEN combined
    ELSE Combine(Put(combined, Head(propagation)[1],
                     PyMax(Get(combined, Head(propagation)[1], RZero), Head(propagation)[2])),
                 Tail(propagation))

\* the walk from base_scores: [propagation, next_frontier, failed] at its end
Walk(G, order, depth, base_scores) ==
    Propagate(G, order,
              [propagation |-> <<>>, next_frontier |-> base_scores, failed |-> FALSE],
              depth)

\* the result list of GraphTraversalSearch.search; failed = a lookup raised
\* KeyError, inside neighbors or at graph.nodes[node_id]
GraphRank(G, combined_scores, walk_failed, index, limit) ==
    Outcome(Take(SortDesc([i \in 1..Len(combined_scores) |->
                     SearchResult(combined_scores[i][1], combined_scores[i][2], "graph")]),
                 limit),
            index,
            \/ walk_failed
            \/ \E i \in 1..Len(combined_scores) : ~HasKey(G.nodes, combined_scores[i][1]))

\* combined_scores, from base_scores and the walk's outcome, into the results
CombinedScores(G, base_scores, walk, index, limit) ==
    GraphRank(G, Combine(base_scores, walk.propagation), walk.failed, index, limit)

\* GraphTraversalSearch.search from `propagation = defaultdict(float)` on
WalkFrom(G, order, depth, base_scores, index, limit) ==
    CombinedScores(G, base_scores, Walk(G, order, depth, base_scores), index, limit)

\* GraphTraversalSearch.search (index: the Vector instance's _idf, untouched)
GraphSearch(G, order, depth, index, query, limit) ==
    WalkFrom(G, order, depth, Seed(all_nodes(G), Keywords(query)), index, limit)

-----------------------------------------------------------------------------
(* search_strategies.py: OntologyLensSearch *)

AND == <<" ", "a", "n", "d", " ">>

IsNonEmpty(segment) ==
    Strip(segment) # <<>>

StripLowerAll(segments) ==
    [i \in 1..Len(segments) |-> Lower(Strip(segments[i]))]

\* [segment.strip().lower() for segment in query.split(" and ") if segment.strip()]
Filters(query) ==
    StripLowerAll(SelectSeq(SplitOn(query, AND), IsNonEmpty))

\* sum(1 for filt in filters if any(filt in tag for tag in tags))
MatchCount(node, filters) ==
    Cardinality({i \in 1..Len(filters) :
                   \E j \in 1..Len(node.tags) : Contains(filters[i], Lower(node.tags[j]))})

\* `score = match_count / len(filters)`
FacetScore(match_count, filters) ==
    Rat(match_count, Len(filters))

\* the scan without `if match_count:`
RECURSIVE ScanAll(_, _)
ScanAll(nodeseq, filters) ==
    IF nodeseq = <<>> \/ filters = <<>> THEN <<>>
    ELSE <<SearchResult(Head(nodeseq).id,
                        FacetScore(MatchCount(Head(nodeseq), filters), filters),
                        "ontology")>>
         \o ScanAll(Tail(nodeseq), filters)

RECURSIVE OntologyScan(_, _)
OntologyScan(nodeseq, filters) ==
    IF nodeseq = <<>> THEN <<>>
    ELSE IF MatchCount(Head(nodeseq), filters) # 0
         THEN <<SearchResult(Head(nodeseq).id,
                             FacetScore(MatchCount(Head(nodeseq), filters), filters),
                             "ontology")>>
              \o OntologyScan(Tail(nodeseq), filters)
         ELSE OntologyScan(Tail(nodeseq), filters)

\* OntologyLensSearch.search
OntologySearch(G, index, query, limit) ==
    Outcome(Take(SortDesc(OntologyScan(all_nodes(G), Filters(query))), limit), index, FALSE)

-----------------------------------------------------------------------------
(* search_strategies.py: HybridSelfImprovingSearch *)

\* strategy.search(graph, query, limit) for a constituent, by its name
StrategySearch(name, G, order, depth, index, query, limit) ==
    CASE name = "vector" -> VectorSearch(G, index, query, limit)
      [] name = "graph" -> GraphSearch(G, order, depth, index, query, limit)
      [] name = "ontology" -> OntologySearch(G, index, query, limit)

\* strategy_results[strategy.name] = r.results; acc = [strategy_results, idf, failed]
Collect(acc, name, r) ==
    [strategy_results |-> Put(acc.strategy_results, name, r.results),
     idf |-> r.idf,
     failed |-> acc.failed \/ r.failed]

\* `for strategy in self.strategies: strategy_results[strategy.name] = ...`
RECURSIVE RunConstituents(_, _, _, _, _, _, _)
RunConstituents(names, G, order, depth, query, limit, acc) ==
    IF Done(acc) /\ names = <<>> THEN acc
    ELSE RunConstituents(Tail(names), G, order, depth, query, limit,
             Collect(acc, Head(names),
                     StrategySearch(Head(names), G, order, depth, acc.idf, query, limit)))

\* the whole weight added at every rank: score_by_node[result.node.id] += weight
RECURSIVE RankBlind(_, _, _, _)
RankBlind(score_by_node, results, rank, weight) ==
    IF Done(score_by_node) /\ results = <<>> THEN score_by_node
    ELSE RankBlind(Put(score_by_node, Head(results).id,
                       RAdd(Get(score_by_node, Head(results).id, RZero), weight)),
                   Tail(results), rank + 1, weight)

\* `for rank, result in enumerate(results, start=1)`:
\* score_by_node[result.node.id] += weight / rank
RECURSIVE AddRanks(_, _, _, _)
AddRanks(score_by_node, results, rank, weight) ==
    IF Done(score_by_node) /\ results = <<>> THEN score_by_node
    ELSE AddRanks(Put(score_by_node, Head(results).id,
                      RAdd(Get(score_by_node, Head(results).id, RZero),
                           RDivInt(weight, rank))),
                  Tail(results), rank + 1, weight)

\* `for name, results in strategy_results.items()`, weight = self.weights.get(name, 1.0)
RECURSIVE Fuse(_, _, _)
Fuse(score_by_node, strategy_results, W) ==
    IF Done(score_by_node) /\ strategy_results = <<>> THEN score_by_node
    ELSE Fuse(AddRanks(score_by_node, Head(strategy_results)[2], 1,
                       Get(W, Head(strategy_results)[1], ROne)),
              Tail(strategy_results), W)

\* merged, sorted and cut
Merge(score_by_node, limit) ==
    Take(SortDesc([i \in 1..Len(score_by_node) |->
             SearchResult(score_by_node[i][1], score_by_node[i][2], "hybrid")]),
         limit)

HybridRank(run, W, limit) ==
    Outcome(Merge(Fuse(<<>>, run.strategy_results, W), limit), run.idf, run.failed)

\* HybridSelfImprovingSearch.search
HybridSearch(names, W, G, order, depth, index, query, limit) ==
    HybridRank(RunConstituents(names, G, order, depth, query, limit,
                   [strategy_results |-> <<>>, idf |-> index, failed |-> FALSE]),
               W, limit)

\* the floor 0.1 and the default learning_rate 0.1 of update_weights
Floor == Rat(1, 10)
learning_rate == Rat(1, 10)

\* the update without its floor: current + learning_rate * delta
Unfloored(current, delta) ==
    RAdd(current, RMul(learning_rate, delta))

\* self.weights[name] = max(0.1, current + learning_rate * delta)
NewWeight(current, delta) ==
    PyMax(Floor, RAdd(current, RMul(learning_rate, delta)))

\* HybridSelfImprovingSearch.update_weights
RECURSIVE update_weights(_, _)
update_weights(W, performance) ==
    IF Done(W) /\ performance = <<>> THEN W
    ELSE update_weights(Put(W, Head(performance)[1],
                            NewWeight(Get(W, Head(performance)[1], ROne),
                                      Head(performance)[2])),
                        Tail(performance))

\* HybridSelfImprovingSearch.__init__: {strategy.name: 1.0 for strategy in strategies}
RECURSIVE InitialWeights(_)
InitialWeights(names) ==
    IF names = <<>> THEN <<>>
    ELSE Put(InitialWeights(SubSeq(names, 1, Len(names) - 1)), names[Len(names)], ROne)

-----------------------------------------------------------------------------
(* self_improver.py: SearchLeague *)

\* the default `limit` of search and the default `k` of _precision_at_k
DefaultLimit == 5
DefaultK == 5

QueryExample(query, relevant_ids) ==
    [query |-> query, relevant_ids |-> relevant_ids]

\* sum(1 for result in top_k if result.node.id in relevant)
Hits(top_k, relevant) ==
    Cardinality({i \in 1..Len(top_k) : top_k[i].id \in relevant})

PrecisionOf(top_k, relevant) ==
    IF top_k = <<>> THEN RZero ELSE Rat(Hits(top_k, relevant), Len(top_k))

\* hits over k, whatever the number of results taken
HitsOverK(results, relevant_ids, k) ==
    IF k = 0 THEN RZero ELSE Rat(Hits(Take(results, k), Range(relevant_ids)), k)

\* SearchLeague._precision_at_k
_precision_at_k(results, relevant_ids, k) ==
    PrecisionOf(Take(results, k), Range(relevant_ids))

\* the league's view of its collaborators: the graph, the interpreter's set
\* order, the Graph-Traversal depth, the constituents and the Hybrid's weights
League(G, order, depth, names, W) ==
    [graph |-> G, order |-> order, walk_depth |-> depth, strategies |-> names, weights |-> W]

\* search of one constituent with the defaults, as run_round calls it
LeagueSearch(L, name, index, query) ==
    StrategySearch(name, L.graph, L.order, L.walk_depth, index, query, DefaultLimit)

\* performance[strategy.name] += score; acc = [performance, hybrid_performance, idf, failed]
Credit(acc, name, r, example) ==
    [acc EXCEPT !.performance =
                    Put(@, name, RAdd(Get(@, name, RZero),
                                      _precision_at_k(r.results, example.relevant_ids, DefaultK))),
                !.idf = r.idf,
                !.failed = @ \/ r.failed]

\* run_round, first inner loop
RECURSIVE ScoreEach(_, _, _, _)
ScoreEach(L, names, example, acc) ==
    IF Done(acc) /\ names = <<>> THEN acc
    ELSE ScoreEach(L, Tail(names), example,
                   Credit(acc, Head(names),
                          LeagueSearch(L, Head(names), acc.idf, example.query), example))

\* hybrid_performance[strategy.name] += score - individual_score
Debit(acc, name, r, example, hybrid_score) ==
    [acc EXCEPT !.hybrid_performance =
                    Put(@, name,
                        RAdd(Get(@, name, RZero),
                             RSub(hybrid_score,
                                  _precision_at_k(r.results, example.relevant_ids, DefaultK)))),
                !.idf = r.idf,
                !.failed = @ \/ r.failed]

\* run_round, second inner loop
RECURSIVE CompareEach(_, _, _, _, _)
CompareEach(L, names, example, hybrid_score, acc) ==
    IF Done(acc) /\ names = <<>> THEN acc
    ELSE CompareEach(L, Tail(names), example, hybrid_score,
                     Debit(acc, Head(names),
                           LeagueSearch(L, Head(names), acc.idf, example.query),
                           example, hybrid_score))

\* the part of the loop body from the Hybrid's results h on
AfterHybrid(L, example, acc, h) ==
    CompareEach(L, L.strategies, example,
                _precision_at_k(h.results, example.relevant_ids, DefaultK),
                [acc EXCEPT !.idf = h.idf, !.failed = @ \/ h.failed])

\* the part of the loop body from hybrid_results = self.hybrid.search(...) on
WithHybrid(L, example, acc) ==
    AfterHybrid(L, example, acc,
                HybridSearch(L.strategies, L.weights, L.graph, L.order, L.walk_depth,
                             acc.idf, example.query, DefaultLimit))

\* run_round: `for example in self.evaluation_set`
RECURSIVE EvaluateAll(_, _, _)
EvaluateAll(L, examples, acc) ==
    IF Done(acc) /\ examples = <<>> THEN acc
    ELSE EvaluateAll(L, Tail(examples),
                     WithHybrid(L, Head(examples),
                                ScoreEach(L, L.strategies, Head(examples), acc)))

\* {strategy.name: 0.0 for strategy in self.strategies}
RECURSIVE ZeroMap(_)
ZeroMap(names) ==
    IF names = <<>> THEN <<>>
    ELSE Put(ZeroMap(SubSeq(names, 1, Len(names) - 1)), names[Len(names)], RZero)

\* the sums left as they are, never divided
Unnormalized(performance, query_count) ==
    performance

\* `for name in performance: performance[name] /= query_count`
Normalize(performance, query_count) ==
    [i \in 1..Len(performance) |->
        <<performance[i][1], RDivInt(performance[i][2], query_count)>>]

\* the summed advantages handed on as they are, never divided
Unaveraged(performance, hybrid_performance, query_count) ==
    hybrid_performance

\* `for name in performance: hybrid_performance[name] /= query_count`
NormalizeBy(performance, hybrid_performance, query_count) ==
    [i \in 1..Len(hybrid_performance) |->
        <<hybrid_performance[i][1],
          IF HasKey(performance, hybrid_performance[i][1])
          THEN RDivInt(hybrid_performance[i][2], query_count)
          ELSE hybrid_performance[i][2]>>]

\* query_count = max(len(self.evaluation_set), 1)
QueryCount(examples) ==
    IF 1 < Len(examples) THEN Len(examples) ELSE 1

\* what a round leaves behind: the map returned, the Hybrid's weights and the
\* Vector instance's _idf afterwards, and whether a search raised
Round(performance, W, index, failed) ==
    [performance |-> performance, weights |-> W, idf |-> index, failed |-> failed]

\* run_round from `query_count = ...` on
CloseRound(L, acc, query_count) ==
    Round(Normalize(acc.performance, query_count),
          update_weights(L.weights,
                         NormalizeBy(acc.performance, acc.hybrid_performance, query_count)),
          acc.idf, acc.failed)

\* SearchLeague.run_round
run_round(L, index, examples) ==
    CloseRound(L,
               EvaluateAll(L, examples,
                           [performance |-> ZeroMap(L.strategies),
                            hybrid_performance |-> ZeroMap(L.strategies),
                            idf |-> index, failed |-> FALSE]),
               QueryCount(examples))

\* the last key whose value no other exceeds
LastBest(scores) ==
    scores[CHOOSE i \in 1..Len(scores) :
              /\ \A j \in 1..Len(scores) : ~RLt(scores[i][2], scores[j][2])
              /\ \A j \in (i + 1)..Len(scores) : RLt(scores[j][2], scores[i][2])][1]

\* max(scores, key=scores.get): the first key whose value no other exceeds
BestName(scores) ==
    scores[CHOOSE i \in 1..Len(scores) :
              /\ \A j \in 1..Len(scores) : ~RLt(scores[i][2], scores[j][2])
              /\ \A j \in 1..(i - 1) : RLt(scores[j][2], scores[i][2])][1]

\* `for strategy in self.strategies: if strategy.name == best_name: return strategy`,
\* else `return self.hybrid`
Winner(names, best_name) ==
    IF \E i \in 1..Len(names) : names[i] = best_name THEN best_name ELSE "hybrid"

\* champion from `best_name = max(scores, key=scores.get)` on; max() of an
\* empty map raises ValueError
Crown(L, round) ==
    [name |-> IF round.performance = <<>> THEN "ValueError"
              ELSE Winner(L.strategies, BestName(round.performance)),
     scores |-> round.performance,
     weights |-> round.weights,
     idf |-> round.idf,
     failed |-> round.failed]

\* SearchLeague.champion
champion(L, index, examples) ==
    Crown(L, run_round(L, index, examples))

-----------------------------------------------------------------------------
(* The inputs the model draws from *)

Na == Node("a", <<"A", "b">>, <<"p">>, <<"a", "b", SP, "c">>, << <<"c", SP, "d">>, <<"B">> >>)
Nb == Node("b", <<"b">>, <<"p">>, <<>>, << <<"d">> >>)
Nc == Node("c", <<>>, <<>>, <<>>, <<>>)
Na2 == Node("a", <<"c">>, <<"w">>, <<>>, << <<"a", "b">> >>)
NodePool == {Na, Nb, Nc, Na2}

\* "z" is listed by an edge and never registered as a Node
NodeIds == {"a", "b", "c", "z"}

E1 == Hyperedge("e1", <<"a", "b">>)
E1v == Hyperedge("e1", <<"b", "c">>)
E2 == Hyperedge("e2", <<"b", "c", "c", "z">>)
EdgePool == {E1, E1v, E2}

EdgeOrders == {<<"e1", "e2">>, <<"e2", "e1">>}

S1 == Source(<<Na, Nb>>, <<E1>>)
S2 == Source(<<Nc>>, <<E2>>)
S3 == Source(<<Na2>>, <<E1v>>)
SourceLists == {<<>>, <<S1>>, <<S1, S2>>, <<S2, S1>>, <<S1, S2, S3>>}

Qab == <<"a", "b">>
Qcdb == <<"c", SP, "D", SP, "a", "n", "d", SP, "b">>
Qand == <<SP, "a", "n", "d", SP>>
Qpb == <<"p", SP, "B", SP, "b">>
QueryPool == {Qab, Qcdb, Qand, Qpb}

StrategyLists ==
    {<<"vector", "graph", "ontology">>, <<"ontology", "graph">>, <<"vector">>, <<>>}

EvalSets ==
    {<<>>,
     <<QueryExample(Qab, <<"a">>)>>,
     <<QueryExample(Qcdb, <<"b", "b">>), QueryExample(Qpb, <<"a", "c">>)>>}

\* deltas handed to update_weights directly, for every constituent at once or
\* for the first one alone
Deltas == {Rat(-20, 1), Rat(7, 2)}

Uniform(names, delta) == [i \in 1..Len(names) |-> <<names[i], delta>>]

FirstOnly(names, delta) == <<<<names[1], delta>>>>

PerformancePool(names) ==
    {Uniform(names, delta) : delta \in Deltas}
    \cup {FirstOnly(names, delta) : delta \in Deltas}

\* largest walk_depth a GraphTraversalSearch is built with
MaxWalkDepth == 2

\* the limits and ks passed explicitly
Limits == {0, MaxLimit, DefaultLimit}

-----------------------------------------------------------------------------
(* The state machine *)

Graph == KnowledgeGraph(nodes, hyperedges, node_to_edges)

TheLeague == League(Graph, edge_order, walk_depth, strategies, weights)

None == [op |-> "None"]

GraphIs(G) ==
    /\ nodes = G.nodes
    /\ hyperedges = G.hyperedges
    /\ node_to_edges = G.node_to_edges

SetGraph(G) ==
    /\ nodes' = G.nodes
    /\ hyperedges' = G.hyperedges
    /\ node_to_edges' = G.node_to_edges

AddNode(node) ==
    /\ SetGraph(add_node(Graph, node))
    /\ ret' = None
    /\ UNCHANGED <<configVars, idf, searched, weights, updates>>

AddHyperedge(edge) ==
    /\ SetGraph(add_hyperedge(Graph, edge))
    /\ ret' = None
    /\ UNCHANGED <<configVars, idf, searched, weights, updates>>

NeighborsReturns(node_id, r) ==
    ret' = [op |-> "neighbors", node_id |-> node_id, yielded |-> r.yielded, failed |-> r.failed]

Neighbors(node_id) ==
    /\ NeighborsReturns(node_id, neighbors(Graph, edge_order, node_id))
    /\ UNCHANGED <<graphVars, configVars, idf, searched, weights, updates>>

\* search on one of the league's constituents, or on its Hybrid
SearchOutcome(name, names, W, G, order, depth, index, query, limit) ==
    IF name = "hybrid"
    THEN HybridSearch(names, W, G, order, depth, index, query, limit)
    ELSE StrategySearch(name, G, order, depth, index, query, limit)

\* whether a search on `name` calls the Vector instance's search: its own, or
\* the Hybrid's `strategy.search(graph, query, limit)` on that constituent
CallsVector(name, names) ==
    \/ name = "vector"
    \/ name = "hybrid" /\ "vector" \in Range(names)

\* whether a round does: it searches every constituent on every example
RoundCallsVector(names, examples) ==
    "vector" \in Range(names) /\ examples # <<>>

SearchReturns(name, query, limit, r) ==
    /\ ret' = [op |-> "search", strategy |-> name, query |-> query, limit |-> limit,
               results |-> r.results, failed |-> r.failed]
    /\ idf' = r.idf

\* The caller: a search that follows a search repeats its query and limit (on
\* any strategy); a new query comes after any other call. What was asked last
\* is no part of the program's state, so this loses no state of the program.
Repeats(query, limit) ==
    ret.op = "search" => (ret.query = query /\ ret.limit = limit)

Search(name, query, limit) ==
    /\ Repeats(query, limit)
    /\ SearchReturns(name, query, limit,
                     SearchOutcome(name, strategies, weights, Graph, edge_order, walk_depth,
                                   idf, query, limit))
    /\ searched' = (searched \/ CallsVector(name, strategies))
    /\ UNCHANGED <<graphVars, configVars, weights, updates>>

UpdateWeights(performance) ==
    /\ updates < MaxUpdates
    /\ weights' = update_weights(weights, performance)
    /\ updates' = updates + 1
    /\ ret' = None
    /\ UNCHANGED <<graphVars, configVars, idf, searched>>

RunRoundReturns(r) ==
    /\ ret' = [op |-> "run_round", performance |-> r.performance, failed |-> r.failed]
    /\ weights' = r.weights
    /\ idf' = r.idf

RunRound ==
    /\ updates < MaxUpdates
    /\ RunRoundReturns(run_round(TheLeague, idf, evaluation_set))
    /\ searched' = (searched \/ RoundCallsVector(strategies, evaluation_set))
    /\ updates' = updates + 1
    /\ UNCHANGED <<graphVars, configVars>>

ChampionReturns(r) ==
    /\ ret' = [op |-> "champion", name |-> r.name, scores |-> r.scores, failed |-> r.failed]
    /\ weights' = r.weights
    /\ idf' = r.idf

Champion ==
    /\ updates < MaxUpdates
    /\ ChampionReturns(champion(TheLeague, idf, evaluation_set))
    /\ searched' = (searched \/ RoundCallsVector(strategies, evaluation_set))
    /\ updates' = updates + 1
    /\ UNCHANGED <<graphVars, configVars>>

PrecisionAtK(results, relevant_ids, k) ==
    /\ ret' = [op |-> "_precision_at_k", results |-> results, relevant_ids |-> relevant_ids,
               k |-> k, value |-> _precision_at_k(results, relevant_ids, k)]
    /\ UNCHANGED <<graphVars, configVars, idf, searched, weights, updates>>

-----------------------------------------------------------------------------
(* Spec: a league over a graph built by from_sources, as build_demo_league   *)
(* and run_demo.py use it: rounds, champions and direct weight updates.      *)

Init ==
    /\ \E sources \in SourceLists : GraphIs(from_sources(sources))
    /\ edge_order \in EdgeOrders
    /\ idf = <<>>
    /\ searched = FALSE
    /\ walk_depth = 2
    /\ strategies \in StrategyLists
    /\ weights = InitialWeights(strategies)
    /\ evaluation_set \in EvalSets
    /\ updates = 0
    /\ ret = None

Next ==
    \/ /\ strategies # <<>>
       /\ \E performance \in PerformancePool(strategies) : UpdateWeights(performance)
    \/ RunRound
    \/ Champion

Spec == Init /\ [][Next]_vars

-----------------------------------------------------------------------------
(* SpecGraph: a KnowledgeGraph from its construction on, under add_node,     *)
(* add_hyperedge and neighbors.                                              *)

InitGraph ==
    /\ GraphIs(KnowledgeGraph(<<>>, <<>>, <<>>))
    /\ edge_order \in EdgeOrders
    /\ idf = <<>>
    /\ searched = FALSE
    /\ walk_depth = 2
    /\ strategies = <<>>
    /\ weights = <<>>
    /\ evaluation_set = <<>>
    /\ updates = 0
    /\ ret = None

NextGraph ==
    \/ \E node \in NodePool : AddNode(node)
    \/ \E edge \in EdgePool : AddHyperedge(edge)
    \/ \E node_id \in NodeIds : Neighbors(node_id)

SpecGraph == InitGraph /\ [][NextGraph]_vars

-----------------------------------------------------------------------------
(* SpecSearch: the four strategies searching a graph that may still grow,    *)
(* with the Hybrid's weights as updates leave them.                          *)

StrategyNames == {"vector", "graph", "ontology", "hybrid"}

InitSearch ==
    /\ \E sources \in SourceLists : GraphIs(from_sources(sources))
    /\ edge_order \in EdgeOrders
    /\ idf = <<>>
    /\ searched = FALSE
    /\ walk_depth \in 0..MaxWalkDepth
    /\ strategies = <<"vector", "graph", "ontology">>
    /\ weights = InitialWeights(strategies)
    /\ evaluation_set = <<>>
    /\ updates = 0
    /\ ret = None

NextSearch ==
    \/ \E name \in StrategyNames, query \in QueryPool, limit \in Limits :
          Search(name, query, limit)
    \/ AddNode(Na2)
    \/ \E delta \in Deltas : UpdateWeights(FirstOnly(strategies, delta))

SpecSearch == InitSearch /\ [][NextSearch]_vars

-----------------------------------------------------------------------------
(* SpecPrecision: _precision_at_k on result lists, relevant ids and k drawn  *)
(* from small sets.                                                          *)

\* longest result list handed to _precision_at_k
MaxResults == 2

ResultLists ==
    UNION {[1..n -> {SearchResult(id, ROne, "vector") : id \in {"a", "b", "c"}}] :
             n \in 0..MaxResults}

RelevantLists == {<<>>, <<"a">>, <<"b", "a">>, <<"c", "c">>}

NextPrecision ==
    \E results \in ResultLists, relevant_ids \in RelevantLists, k \in Limits :
        PrecisionAtK(results, relevant_ids, k)

SpecPrecision == InitGraph /\ [][NextPrecision]_vars

-----------------------------------------------------------------------------
(* The properties checked, claim by claim *)

\* C1: in every state reached by update_weights, run_round and champion
\* calls, with deltas of either sign, every entry of the Hybrid's weight map
\* is at least 0.1.
C1_WeightsNeverBelowFloor ==
    \A i \in 1..Len(weights) : RLeq(Floor, weights[i][2])

\* a weight that an update with a large negative delta left on the floor
C1_Witness ==
    /\ updates > 0
    /\ \E i \in 1..Len(weights) : weights[i][2] = Floor

\* the precision@5 of one constituent on one example, searched on the graph
\* and the idf table the round left behind
PrecisionAt5(name, example) ==
    _precision_at_k(
        StrategySearch(name, Graph, edge_order, walk_depth, idf, example.query, 5).results,
        example.relevant_ids, 5)

RECURSIVE SummedPrecision(_, _)
SummedPrecision(name, examples) ==
    IF examples = <<>> THEN RZero
    ELSE RAdd(PrecisionAt5(name, Head(examples)), SummedPrecision(name, Tail(examples)))

MeanPrecision(name) ==
    RDivInt(SummedPrecision(name, evaluation_set),
            IF evaluation_set = <<>> THEN 1 ELSE Len(evaluation_set))

IsMeanPrecisionMap(scores) ==
    /\ Len(scores) = Len(strategies)
    /\ KeySet(scores) = Range(strategies)
    /\ ~HasKey(scores, "hybrid")
    /\ \A i \in 1..Len(scores) :
          /\ RLeq(RZero, scores[i][2])
          /\ scores[i][2] = MeanPrecision(scores[i][1])
          /\ evaluation_set = <<>> => scores[i][2] = RZero

\* C9: the map run_round returns has exactly the constituents' names as keys
\* (never the Hybrid's), and each value is >= 0 and is that constituent's
\* precision@5 summed over the examples and divided by max(#examples, 1);
\* with no examples every value is 0.
C9_RoundReturnsMeanPrecision ==
    ret.op = "run_round" => IsMeanPrecisionMap(ret.performance)

\* a round over two examples in which a constituent scored strictly between
\* 0 and 1
C9_Witness ==
    /\ ret.op = "run_round"
    /\ Len(evaluation_set) = 2
    /\ \E i \in 1..Len(ret.performance) :
          /\ RLt(RZero, ret.performance[i][2])
          /\ RLt(ret.performance[i][2], ROne)

Position(names, name) ==
    CHOOSE i \in 1..Len(names) : names[i] = name

\* C10: in a league with at least one constituent, champion returns a
\* constituent, never the Hybrid; its name is a key of the round's score map,
\* its mean precision@5 in that round is the maximum, and among constituents
\* tied for the maximum it is the first of the league's strategy list.
C10_ChampionIsFirstBest ==
    (ret.op = "champion" /\ strategies # <<>>) =>
        /\ ret.name # "hybrid"
        /\ ret.name \in Range(strategies)
        /\ HasKey(ret.scores, ret.name)
        /\ IsMeanPrecisionMap(ret.scores)
        /\ \A i \in 1..Len(strategies) :
              /\ RLeq(MeanPrecision(strategies[i]), MeanPrecision(ret.name))
              /\ MeanPrecision(strategies[i]) = MeanPrecision(ret.name)
                    => Position(strategies, ret.name) <= i

\* a champion that is not the first constituent, and one that won a tie
C10_Witness ==
    /\ ret.op = "champion"
    /\ Len(strategies) >= 2
    /\ RLt(RZero, MeanPrecision(ret.name))
    /\ \E i \in 1..Len(strategies) :
          /\ strategies[i] # ret.name
          /\ MeanPrecision(strategies[i]) = MeanPrecision(ret.name)

\* the ids of the stored hyperedges whose node_ids contain n
Incident(n) ==
    {hyperedges[i][1] : i \in {j \in 1..Len(hyperedges) :
                                  n \in Range(hyperedges[j][2].node_ids)}}

\* C3: after any sequence of add_node and add_hyperedge calls, re-insertions
\* of an edge id with other node_ids included, the adjacency index entry of
\* every node id n is exactly the set of ids of the stored hyperedges whose
\* node_ids contain n.
C3_IndexIsExactlyIncidentEdges ==
    \A n \in NodeIds : IncidentIds(Graph, n) = Incident(n)

\* C4: for every graph built by add_node/add_hyperedge and every node id n,
\* registered or not, neighbors(n) yields only Nodes registered in the node
\* map whose id differs from n, so ids an edge lists without a registered
\* Node are skipped, and no lookup of a node or an edge fails.
C4_NeighborsAreRegisteredOthers ==
    ret.op = "neighbors" =>
        /\ ~ret.failed
        /\ \A i \in 1..Len(ret.yielded) :
              /\ ret.yielded[i].id # ret.node_id
              /\ HasKey(nodes, ret.yielded[i].id)
              /\ Get(nodes, ret.yielded[i].id, None) = ret.yielded[i]

\* neighbors of b through an edge that also lists b's unregistered peer z
C4_Witness ==
    /\ ret.op = "neighbors"
    /\ ret.node_id = "b"
    /\ "e2" \in IncidentIds(Graph, "b")
    /\ ~HasKey(nodes, "z")
    /\ ret.yielded # <<>>

\* the number of results actually taken: min(k, len(results))
Taken(results, k) ==
    IF k < Len(results) THEN k ELSE Len(results)

HitsIn(results, relevant_ids, k) ==
    Cardinality({i \in 1..Taken(results, k) : results[i].id \in Range(relevant_ids)})

\* C5: for every result list, relevant ids and k >= 0, _precision_at_k
\* returns a value in [0, 1]: 0 when the first k results are empty, and
\* otherwise hits / min(k, len(results)).
C5_PrecisionIsHitsOverTaken ==
    ret.op = "_precision_at_k" =>
        /\ RLeq(RZero, ret.value)
        /\ RLeq(ret.value, ROne)
        /\ Taken(ret.results, ret.k) = 0 => ret.value = RZero
        /\ Taken(ret.results, ret.k) > 0 =>
              ret.value = Rat(HitsIn(ret.results, ret.relevant_ids, ret.k),
                              Taken(ret.results, ret.k))

\* k larger than the list, and some but not all of the results relevant
C5_Witness ==
    /\ ret.op = "_precision_at_k"
    /\ Len(ret.results) > 0
    /\ ret.k > Len(ret.results)
    /\ RLt(RZero, ret.value)
    /\ RLt(ret.value, ROne)

\* C2: once the Vector instance has searched, no later search rebuilds or
\* changes its idf table, whatever nodes were added to the graph in between,
\* the first search on an empty graph included.
C2_IdfCachedAfterFirstSearch ==
    [][searched => idf' = idf]_vars

\* a search has just returned from the strategy `name`
Searched(name) ==
    ret.op = "search" /\ ret.strategy = name

\* the number of the query's facets that at least one tag of the node contains
Matched(id, query) ==
    MatchCount(Get(nodes, id, None), Filters(query))

\* C6: for every graph and query, a query with no non-empty facet included,
\* Ontology-Lens search returns no node with zero matching facets, and every
\* returned score is (facets matched by at least one tag) / (facets) and
\* lies in (0, 1]; nothing is divided by zero.
C6_OntologyScoreIsMatchedShare ==
    Searched("ontology") =>
        /\ ~ret.failed
        /\ Filters(ret.query) = <<>> => ret.results = <<>>
        /\ \A i \in 1..Len(ret.results) :
              /\ Matched(ret.results[i].id, ret.query) > 0
              /\ Len(Filters(ret.query)) > 0
              /\ ret.results[i].score =
                    Rat(Matched(ret.results[i].id, ret.query), Len(Filters(ret.query)))
              /\ RLt(RZero, ret.results[i].score)
              /\ RLeq(ret.results[i].score, ROne)

\* a node returned for matching one of two facets, beside nodes left out for
\* matching none
C6_Witness ==
    /\ Searched("ontology")
    /\ Len(Filters(ret.query)) = 2
    /\ \E i \in 1..Len(ret.results) : ret.results[i].score = Rat(1, 2)
    /\ Len(ret.results) < Len(nodes)

\* C7: for every graph, query and limit >= 0, the results of each of the four
\* strategies have non-increasing scores: score[i] >= score[i + 1].
C7_ScoresNonIncreasing ==
    ret.op = "search" =>
        \A i \in 1..(Len(ret.results) - 1) :
            RLeq(ret.results[i + 1].score, ret.results[i].score)

\* Hybrid results with strictly falling scores that do not start with the
\* graph's first node
C7_Witness ==
    /\ Searched("hybrid")
    /\ Len(ret.results) >= 2
    /\ RLt(ret.results[2].score, ret.results[1].score)
    /\ ret.results[1].id # nodes[1][1]

\* the same search called once more in the state the first call left
Again ==
    SearchOutcome(ret.strategy, strategies, weights, Graph, edge_order, walk_depth,
                  idf, ret.query, ret.limit)

\* C8: a second call of the same strategy's search with the same query and
\* limit, with no add_node, add_hyperedge or update_weights since the first,
\* returns the same results in the same order, and leaves the Vector
\* strategy's idf table as the first call left it.
C8_SecondCallReturnsTheSame ==
    ret.op = "search" =>
        /\ Again.results = ret.results
        /\ Again.failed = ret.failed
        /\ Again.idf = idf

\* a Vector search that built the table and returned two results or more
C8_Witness ==
    /\ Searched("vector")
    /\ idf # <<>>
    /\ Len(ret.results) >= 2

\* the ids of the nodes the query seeds
SeedIds(query) ==
    {nodes[i][1] : i \in {j \in 1..Len(nodes) : IsSeed(nodes[j][2], Keywords(query))}}

\* the ids neighbors(x) yields
NeighborIds(x) ==
    {y.id : y \in Range(neighbors(Graph, edge_order, x).yielded)}

\* the ids at most k neighbors() steps away from the set S
RECURSIVE Within(_, _)
Within(S, k) ==
    IF k <= 0 THEN S
    ELSE Within(S, k - 1) \cup UNION {NeighborIds(x) : x \in Within(S, k - 1)}

\* the length of the shortest path from S to an id that Within(S, bound) holds
Distance(S, id, bound) ==
    CHOOSE d \in 0..bound :
        /\ id \in Within(S, d)
        /\ \A e \in 0..(d - 1) : id \notin Within(S, e)

RECURSIVE Pow(_, _)
Pow(r, d) ==
    IF d = 0 THEN ROne ELSE RMul(r, Pow(r, d - 1))

ResultIds ==
    {ret.results[i].id : i \in 1..Len(ret.results)}

\* C11: with walk_depth <= 9 and a limit of at least the number of nodes,
\* Graph-Traversal search returns exactly the nodes whose shortest distance d
\* from the seed set along neighbors() steps is <= walk_depth, each once, with
\* score 0.6^d: a seed scores exactly 1, and a longer path to a node never
\* changes its score.
C11_ScoreIsDecayToTheDistance ==
    (Searched("graph") /\ walk_depth <= 9 /\ ret.limit >= Len(nodes)) =>
        /\ ResultIds = Within(SeedIds(ret.query), walk_depth)
        /\ Len(ret.results) = Cardinality(ResultIds)
        /\ \A i \in 1..Len(ret.results) :
              ret.results[i].score =
                  Pow(Decay, Distance(SeedIds(ret.query), ret.results[i].id, walk_depth))

\* a walk of depth 2 that returned a seed at 1, and a node two steps away at
\* 0.36 that the walk reached twice
C11_Witness ==
    /\ Searched("graph")
    /\ ret.limit >= Len(nodes)
    /\ walk_depth = 2
    /\ Len(ret.results) = 3
    /\ ret.results[1].score = ROne
    /\ ret.results[3].score = Rat(9, 25)
    /\ Len(neighbors(Graph, edge_order, "b").yielded) > Cardinality(NeighborIds("b"))

\* the result list of each constituent, searched on its own with the query
\* and limit of the last call
OwnLists ==
    [i \in 1..Len(strategies) |->
        StrategySearch(strategies[i], Graph, edge_order, walk_depth, idf,
                       ret.query, ret.limit).results]

\* the ranks at which a list holds the id
RanksOf(list, id) ==
    {r \in 1..Len(list) : list[r].id = id}

\* weight / r if the list holds the id at rank r, and 0 if it does not
Contribution(list, weight, id) ==
    IF RanksOf(list, id) = {} THEN RZero
    ELSE RDivInt(weight, CHOOSE r \in RanksOf(list, id) : TRUE)

RECURSIVE SumOfContributions(_, _, _)
SumOfContributions(lists, id, i) ==
    IF i = 0 THEN RZero
    ELSE RAdd(SumOfContributions(lists, id, i - 1),
              Contribution(lists[i], Get(weights, strategies[i], ROne), id))

\* the results are the fusion of the lists: no id twice, every id in some
\* list, every score the sum of the contributions
IsFusionOf(lists) ==
    /\ Len(ret.results) = Cardinality(ResultIds)
    /\ \A i \in 1..Len(ret.results) :
          /\ \E j \in 1..Len(lists) : RanksOf(lists[j], ret.results[i].id) # {}
          /\ ret.results[i].score =
                SumOfContributions(lists, ret.results[i].id, Len(lists))

HybridFused ==
    Searched("hybrid") => IsFusionOf(OwnLists)

\* C12: Hybrid search returns each node id at most once, with the score
\* sum of weight[constituent] / r over the constituents whose own list, run
\* with the same limit, holds the node at rank r; a node in no constituent's
\* list is not returned; and the search leaves the weight map as it was.
C12_HybridIsWeightedRankFusion ==
    /\ []HybridFused
    /\ [][ret'.op = "search" => weights' = weights]_vars

\* a fused node that two constituents rank differently, under weights made
\* unequal by an update
C12_Witness ==
    /\ Searched("hybrid")
    /\ \E i, j \in 1..Len(weights) : weights[i][2] # weights[j][2]
    /\ \E k \in 1..Len(ret.results) :
          \E i, j \in 1..Len(strategies) :
              /\ RanksOf(OwnLists[i], ret.results[k].id) = {1}
              /\ RanksOf(OwnLists[j], ret.results[k].id) = {2}

\* the Hybrid's precision@5 on one example, searched with the weights and
\* the idf table of the current state
HybridPrecisionAt5(example) ==
    _precision_at_k(
        HybridSearch(strategies, weights, Graph, edge_order, walk_depth, idf,
                     example.query, 5).results,
        example.relevant_ids, 5)

RECURSIVE SummedAdvantage(_, _)
SummedAdvantage(name, examples) ==
    IF examples = <<>> THEN RZero
    ELSE RAdd(RSub(HybridPrecisionAt5(Head(examples)), PrecisionAt5(name, Head(examples))),
              SummedAdvantage(name, Tail(examples)))

\* mean over the examples of (Hybrid precision@5 - the constituent's)
MeanAdvantage(name) ==
    RDivInt(SummedAdvantage(name, evaluation_set),
            IF evaluation_set = <<>> THEN 1 ELSE Len(evaluation_set))

\* max(0.1, old + 0.1 * advantage)
Moved(old, advantage) ==
    IF RLt(RAdd(old, RMul(Rat(1, 10), advantage)), Rat(1, 10))
    THEN Rat(1, 10)
    ELSE RAdd(old, RMul(Rat(1, 10), advantage))

\* |a - b| <= 1/10
Near(a, b) ==
    /\ RLeq(RSub(a, b), Rat(1, 10))
    /\ RLeq(RSub(b, a), Rat(1, 10))

\* a step that returns from run_round or champion
RoundStep ==
    /\ ret'.op \in {"run_round", "champion"}
    /\ updates' = updates + 1

\* C13: every run_round call, and every champion call, updates each
\* constituent's weight exactly once, to max(0.1, old + 0.1 * mean over the
\* examples of (Hybrid precision@5 - the constituent's precision@5)), all of
\* it evaluated with the weights of the round's start; so a round moves a
\* weight by at most 0.1 and an empty evaluation set moves none.
C13_RoundUpdatesEachWeightOnce ==
    [][RoundStep =>
          /\ Keys(weights') = Keys(weights)
          /\ \A i \in 1..Len(weights) :
                /\ weights'[i][2] = Moved(weights[i][2], MeanAdvantage(weights[i][1]))
                /\ Near(weights'[i][2], weights[i][2])
          /\ evaluation_set = <<>> => weights' = weights]_vars

\* a champion call after a round: a weight that two round updates, and no
\* direct update, moved by more than 0.1 in all
C13_Witness ==
    /\ ret.op = "champion"
    /\ updates = 2
    /\ \E i \in 1..Len(weights) :
          /\ ~Near(weights[i][2], ROne)
          /\ RLeq(RSub(weights[i][2], ROne), Rat(1, 5))
          /\ RLeq(RSub(ROne, weights[i][2]), Rat(1, 5))

\* C14: on every graph built by add_node/add_hyperedge calls, graphs whose
\* hyperedges list ids never registered as Nodes included, Graph-Traversal
\* and Hybrid search hit no lookup failure: every id that gets a seed, a
\* propagated or a merged score is a key of the node map.
C14_NoLookupFailure ==
    (ret.op = "search" /\ ret.strategy \in {"graph", "hybrid"}) =>
        /\ ~ret.failed
        /\ ResultIds \subseteq KeySet(nodes)
        /\ Within(SeedIds(ret.query), walk_depth) \subseteq KeySet(nodes)

\* a Hybrid search that returned c, which only the walk through an edge that
\* also lists the unregistered id z reaches
C14_Witness ==
    /\ Searched("hybrid")
    /\ "c" \in ResultIds
    /\ "e2" \in IncidentIds(Graph, "z")
    /\ ~HasKey(nodes, "z")

====
